---- MODULE Spec2Model ----
(***************************************************************************)
(* Model of robosuite/environments/manipulation/lift_rand.py (LiftRand).   *)
(*                                                                         *)
(* Units.  Lengths are integers in millimetres (0.8 m = 800, 0.04 m = 40). *)
(* Unscaled reward components are integers in hundredths (2.25 = 225,      *)
(* 0.25 = 25, reaching in 0..100).  reward_scale is in hundredths          *)
(* (1.0 = 100).  The value reward() returns is an integer in units of      *)
(* 1/22500, so that the multiplication by reward_scale / 2.25 is exact:    *)
(*   (r/100) * ((s/100) / 2.25) = (r*s) / 22500,   r/100 = (225*r)/22500.  *)
(* An optional value (None or x) is the sequence << >> or <<x>>.           *)
(***************************************************************************)
EXTENDS Integers, Sequences, FiniteSets, TLC

VARIABLES self, caller_supplied, phase, loads, ret

vars == <<self, caller_supplied, phase, loads, ret>>

None == << >>

Some(x) == <<x>>

(* ---------------- bounds of the model ---------------- *)

\* number of model loads (construction + hard resets) explored
MaxLoads == 3

(* ---------------- input sets ---------------- *)

\* reward_scale values given by a caller: None, 1.0 (the default), 2.0
RewardScales == {None, Some(100), Some(200)}

\* heights (z of the cube body) a simulation step can produce; a placement puts it at 831
CubeHeights == {840, 841}

\* gripper-site-to-cube distances a simulation step can produce
Dists == {0, 100}

\* table rotation angles drawn, in degrees
Angles == {180}

\* quaternions (w, x, y, z) the sampler can draw for the cube: rotation about z by pi
SampleQuats == {<<0, 0, 0, 1>>}

\* pairs of uniform draws (in halves of the range) for the x and y shift of the table
TableDraws == {<<0, 2>>, <<1, 0>>}

\* use_object_obs values given by a caller: True (the default)
UseObjectObs == {TRUE}

\* pairs of uniform draws (in halves of the range) for the x and y of a placement
SampleDraws == {<<0, 2>>, <<2, 1>>}

(* ---------------- numpy helpers ---------------- *)

\* np.random.uniform(low, high) at the point u / 2 of the range, u in 0..2
uniform(low, high, u) == low + (u * (high - low)) \div 2

\* a local variable: x is evaluated once and F applied to its value
let_in(x, F(_)) == CHOOSE y \in {F(v) : v \in {x}} : TRUE

\* element-wise sum of two 3-vectors
vec_add(a, b) == <<a[1] + b[1], a[2] + b[2], a[3] + b[3]>>

\* 1 - tanh(10 * dist), in hundredths, dist in millimetres
reaching_reward(dist) ==
    CASE dist = 0 -> 100
      [] dist = 50 -> 54
      [] dist = 100 -> 24
      [] dist = 200 -> 4
      [] OTHER -> 0

(* ---------------- host framework (not in this file) ---------------- *)

\* TableArena(table_offset=...): a fresh arena holding the offset it was built with
TableArena(offset) ==
    [table_offset |-> offset,
     asset |-> <<"tex-ceramic", "table_ceramic">>,
     table_visual_material |-> "table_ceramic",
     table_body_quat |-> None]

\* transform_utils.axisangle2quat for the vector (angle, 0, 0), quaternion as (x, y, z, w)
\* scaled by 1000
axisangle2quat(angle) ==
    IF angle = 0 THEN <<0, 0, 0, 1000>> ELSE <<1000, 0, 0, 0>>

\* ObjectPositionSampler.reset(): forget the objects
sampler_reset(s) == [s EXCEPT !.mujoco_objects = << >>]

\* ObjectPositionSampler.add_objects(objs): append the objects
sampler_add_objects(s, objs) == [s EXCEPT !.mujoco_objects = @ \o objs]

\* UniformRandomSampler(...): a new sampler, identified by the load that built it
UniformRandomSampler(id, objs, ref) ==
    [id |-> id, name |-> "ObjectSampler", mujoco_objects |-> objs,
     reference_pos |-> ref, z_offset |-> 10]

\* half height of the cube (size drawn in [0.020, 0.022])
CubeHalfHeight == 21

\* UniformRandomSampler.sample(): one (pos, quat, obj) per held object, x and y within
\* the sampler's range of its reference position, z above the reference height
RECURSIVE sampler_sample(_, _, _, _)
sampler_sample(s, ux, uy, quat) ==
    IF s.mujoco_objects = << >> THEN << >>
    ELSE LET obj == Head(s.mujoco_objects)
             pos == <<s.reference_pos[1] + uniform(-200, 200, ux),
                      s.reference_pos[2] + uniform(-200, 200, uy),
                      s.reference_pos[3] + s.z_offset + CubeHalfHeight>>
         IN  <<[pos |-> pos, quat |-> quat, obj |-> obj]>>
             \o sampler_sample([s EXCEPT !.mujoco_objects = Tail(@)], ux, uy, quat)

\* pose of the cube joint in a freshly built or reset simulation
init_qpos == <<0, 0, 0, 1, 0, 0, 0>>

\* names of the geoms of the compiled model, by geom id (None: an unnamed geom)
GeomNames ==
    <<Some("fixed_mount0_torso_vis"), Some("fixed_mount0_pedestal_vis"),
      Some("robot0_g0_vis"), Some("robot0_g11_vis"), Some("robot0_g12_vis"),
      None, Some("cube_g0_vis"), Some("fixed_mount0_torso")>>

\* sim.model.geom_group, by geom id (1: visual, 0: collision)
GeomGroup == <<1, 0, 1, 1, 1, 1, 1, 0>>

\* sim.model.geom_rgba of a freshly compiled model, by geom id, channels in tenths
InitGeomRgba ==
    <<<<5, 5, 5, 10>>, <<2, 2, 2, 10>>, <<10, 10, 10, 10>>, <<10, 10, 10, 5>>,
      <<10, 10, 10, 10>>, <<3, 3, 3, 10>>, <<0, 10, 0, 10>>, <<5, 5, 5, 10>>>>

\* the state of the gripper visualization site in a freshly compiled model
InitGripperSite == [visible |-> TRUE, colour |-> "default"]

\* one entry of the record of hook calls: the named hook was entered, its superclass
\* implementation has returned, or its own extension steps begin
log(env, hook, part) == [env EXCEPT !.calls = Append(@, <<hook, part>>)]

\* MujocoEnv._initialize_sim(): a simulation compiled from self.model
initialize_sim(env) ==
    [env EXCEPT !.sim = [qpos |-> init_qpos, dist |-> 0, grasp |-> FALSE,
                         geom_rgba |-> InitGeomRgba, gripper_site |-> InitGripperSite]]

\* RobotEnv._load_model(): loads the robots
super_load_model(env) == log(env, "_load_model", "super")

\* RobotEnv._setup_references(): references of the robots
super_setup_references(env) == log(env, "_setup_references", "super")

\* RobotEnv._setup_observables(): the observables of the robot
super_setup_observables(env) ==
    log([env EXCEPT !.observables = <<"robot0_eef_pos">>], "_setup_observables", "super")

\* ManipulationEnv.visualize(): shows or hides the gripper site
super_visualize(env, vis_settings) ==
    log([env EXCEPT !.sim.gripper_site.visible = vis_settings.grippers],
        "visualize", "super")

\* ManipulationEnv._visualize_gripper_to_target(): colours the site by the distance
visualize_gripper_to_target(env) ==
    [env EXCEPT !.sim.gripper_site.colour = "by_distance"]

\* sequence of the alpha channels of the geoms, as a camera image shows them
geom_alphas(env) == [i \in 1..Len(env.sim.geom_rgba) |-> env.sim.geom_rgba[i][4]]

(* ---------------- accessors ---------------- *)

\* self.model.mujoco_arena
Arena(env) == env.model[1].mujoco_arena

\* self.placement_initializer when it is not None
Sampler(env) == env.placement_initializer[1]

\* self.sim.data.body_xpos[self.cube_body_id]
cube_xpos(env) == SubSeq(env.sim.qpos, 1, 3)

(* ---------------- LiftRand ---------------- *)

\* variant of check_success_at: the margin is reached, not exceeded
check_success_at_ge(cube_height, table_height) == cube_height >= table_height + 40

\* LiftRand._check_success on explicit heights: cube higher than the table top above a margin
check_success_at(cube_height, table_height) == cube_height > table_height + 40

\* LiftRand._check_success
_check_success(env) == check_success_at(cube_xpos(env)[3], Arena(env).table_offset[3])

\* LiftRand._check_grasp(gripper, object_geoms=cube): the host's grasp predicate
_check_grasp(env) == env.sim.grasp

\* variant of reward: scales by reward_scale without normalising by 2.25
reward_unnormalised(env) ==
    LET r0 == IF _check_success(env) THEN 225 ELSE 0
        r1 == IF env.reward_shaping
              THEN r0 + reaching_reward(env.sim.dist)
                      + (IF _check_grasp(env) THEN 25 ELSE 0)
              ELSE r0
    IN  IF env.reward_scale # None THEN (r1 * env.reward_scale[1] * 9) \div 4 ELSE r1 * 225

\* variant of reward: shaping terms only when the cube is not lifted (elif)
reward_elif(env) ==
    LET r1 == IF _check_success(env) THEN 225
              ELSE IF env.reward_shaping
                   THEN reaching_reward(env.sim.dist)
                        + (IF _check_grasp(env) THEN 25 ELSE 0)
                   ELSE 0
    IN  IF env.reward_scale # None THEN r1 * env.reward_scale[1] ELSE r1 * 225

\* LiftRand.reward, value in units of 1/22500
reward(env) ==
    LET r0 == IF _check_success(env) THEN 225 ELSE 0
        r1 == IF env.reward_shaping
              THEN r0 + reaching_reward(env.sim.dist)
                      + (IF _check_grasp(env) THEN 25 ELSE 0)
              ELSE r0
    IN  IF env.reward_scale # None THEN r1 * env.reward_scale[1] ELSE r1 * 225

\* variant of _apply_random_table_transformations: shifts the offset of the arena in use
_apply_random_table_transformations_accumulate(env, ux, uy) ==
    LET random_x_offset == uniform(-500, 500, ux)
        random_y_offset == uniform(-500, 500, uy)
        base == IF env.model = None THEN env.table_offset ELSE Arena(env).table_offset
    IN  vec_add(base, <<random_x_offset, random_y_offset, 0>>)

\* LiftRand._apply_random_table_transformations: base offset plus a random x, y shift
_apply_random_table_transformations(env, ux, uy) ==
    LET random_x_offset == uniform(-500, 500, ux)
        random_y_offset == uniform(-500, 500, uy)
    IN  vec_add(env.table_offset, <<random_x_offset, random_y_offset, 0>>)

\* LiftRand._apply_random_table_rotation: sets the quaternion of the table body
_apply_random_table_rotation(arena, angle) ==
    [arena EXCEPT !.table_body_quat = Some(axisangle2quat(angle))]

\* variant of _customize_table_material: the cereal assets are appended in both modes
_customize_table_material_cereal_always(env, arena) ==
    LET a == [arena EXCEPT !.asset = @ \o <<"tex-cereal-table", "cereal_table_mat">>,
                           !.table_visual_material = "cereal_table_mat"]
    IN  IF env.use_white_table_texture
        THEN [a EXCEPT !.asset = @ \o <<"white_table_mat">>,
                       !.table_visual_material = "white_table_mat"]
        ELSE a

\* LiftRand._customize_table_material
_customize_table_material(env, arena) ==
    IF env.use_white_table_texture
    THEN [arena EXCEPT !.asset = @ \o <<"white_table_mat">>,
                       !.table_visual_material = "white_table_mat"]
    ELSE [arena EXCEPT !.asset = @ \o <<"tex-cereal-table", "cereal_table_mat">>,
                       !.table_visual_material = "cereal_table_mat"]

\* variant of create_placement_initializer: an existing sampler is not reset
create_placement_initializer_no_reset(env, id, objects, randomized_table_offset) ==
    IF env.placement_initializer # None
    THEN Some(sampler_add_objects(Sampler(env), objects))
    ELSE Some(UniformRandomSampler(id, objects, randomized_table_offset))

\* LiftRand._load_model, the "Create placement initializer" branch
create_placement_initializer(env, id, objects, randomized_table_offset) ==
    IF env.placement_initializer # None
    THEN Some(sampler_add_objects(sampler_reset(Sampler(env)), objects))
    ELSE Some(UniformRandomSampler(id, objects, randomized_table_offset))

\* LiftRand._load_model; id names the cube object this load creates
_load_model(env, id, ux, uy, angle) ==
    LET e0 == log(super_load_model(log(env, "_load_model", "enter")), "_load_model", "own")
        randomized_table_offset == _apply_random_table_transformations(e0, ux, uy)
        mujoco_arena ==
            _customize_table_material(e0,
                _apply_random_table_rotation(TableArena(randomized_table_offset), angle))
        cube == id
        objects == <<cube>>
    IN  [e0 EXCEPT
            !.cube = Some(cube),
            !.objects = objects,
            !.placement_initializer =
                create_placement_initializer(e0, id, objects, randomized_table_offset),
            !.model = Some([mujoco_arena |-> mujoco_arena, mujoco_objects |-> objects])]

\* LiftRand._setup_references: the body id of the cube of the loaded model
_setup_references(env) ==
    let_in(super_setup_references(log(env, "_setup_references", "enter")),
           LAMBDA e0 : [log(e0, "_setup_references", "own") EXCEPT
                            !.cube_body_id = e0.cube])

\* MujocoEnv._reset_internal(): simulation state back to its initial values, then
\* _setup_references()
super_reset_internal(env, d) ==
    LET e0 == [env EXCEPT !.sim.qpos = init_qpos, !.sim.dist = d, !.sim.grasp = FALSE,
                          !.n_sample = 0, !.placements = << >>, !.qpos_writes = << >>]
    IN  log(_setup_references(e0), "_reset_internal", "super")

\* the loop of LiftRand._reset_internal: one set_joint_qpos per sampled placement
RECURSIVE write_placements(_, _)
write_placements(env, object_placements) ==
    IF object_placements = << >> THEN env
    ELSE LET p == Head(object_placements)
             value == p.pos \o p.quat
         IN  write_placements(
                 [env EXCEPT !.sim.qpos = value,
                             !.qpos_writes = Append(@, [obj |-> p.obj, value |-> value])],
                 Tail(object_placements))

\* variant of _reset_internal: samples whether or not the reset is deterministic
_reset_internal_always_samples(env, d, ux, uy, quat) ==
    let_in(log(super_reset_internal(log(env, "_reset_internal", "enter"), d),
               "_reset_internal", "own"),
           LAMBDA e0 :
               let_in(sampler_sample(Sampler(e0), ux, uy, quat),
                      LAMBDA object_placements :
                          write_placements(
                              [e0 EXCEPT !.n_sample = @ + 1,
                                         !.placements = object_placements],
                              object_placements)))

\* variant of _reset_internal: the table offset is drawn again on every internal reset
_reset_internal_moves_table(env, d, ux, uy, quat) ==
    let_in([log(super_reset_internal(log(env, "_reset_internal", "enter"), d),
                "_reset_internal", "own") EXCEPT
                !.model[1].mujoco_arena.table_offset =
                    _apply_random_table_transformations(env, ux, uy)],
           LAMBDA e0 :
               IF ~e0.deterministic_reset
               THEN let_in(sampler_sample(Sampler(e0), ux, uy, quat),
                           LAMBDA object_placements :
                               write_placements(
                                   [e0 EXCEPT !.n_sample = @ + 1,
                                              !.placements = object_placements],
                                   object_placements))
               ELSE e0)

\* LiftRand._reset_internal
_reset_internal(env, d, ux, uy, quat) ==
    let_in(log(super_reset_internal(log(env, "_reset_internal", "enter"), d),
               "_reset_internal", "own"),
           LAMBDA e0 :
               IF ~e0.deterministic_reset
               THEN let_in(sampler_sample(Sampler(e0), ux, uy, quat),
                           LAMBDA object_placements :
                               write_placements(
                                   [e0 EXCEPT !.n_sample = @ + 1,
                                              !.placements = object_placements],
                                   object_placements))
               ELSE e0)

\* LiftRand._setup_observables: the robot's observables, then the cube's if enabled
_setup_observables(env) ==
    let_in(log(super_setup_observables(log(env, "_setup_observables", "enter")),
               "_setup_observables", "own"),
           LAMBDA e0 :
               IF e0.use_object_obs
               THEN [e0 EXCEPT !.observables =
                        @ \o <<"cube_pos", "cube_quat", "gripper_to_cube_pos">>]
               ELSE e0)

\* LiftRand.visualize
visualize(env, vis_settings) ==
    LET e0 == log(super_visualize(log(env, "visualize", "enter"), vis_settings),
                  "visualize", "own")
    IN  IF vis_settings.grippers THEN visualize_gripper_to_target(e0) ELSE e0

\* the geom names LiftRand._make_robot_base_transparent looks for
transparent_geom_names ==
    {"fixed_mount0_torso_vis", "fixed_mount0_pedestal_vis"}
        \cup {"robot0_g" \o ToString(i) \o "_vis" : i \in 0..11}

\* variant of _make_robot_base_transparent: the visual group of the geom is not checked
_make_robot_base_transparent_any_group(env) ==
    [env EXCEPT !.sim.geom_rgba =
        [geom_id \in 1..Len(GeomNames) |->
            IF /\ GeomNames[geom_id] # None
               /\ GeomNames[geom_id][1] \in transparent_geom_names
            THEN [@[geom_id] EXCEPT ![4] = 0]
            ELSE @[geom_id]]]

\* LiftRand._make_robot_base_transparent
_make_robot_base_transparent(env) ==
    [env EXCEPT !.sim.geom_rgba =
        [geom_id \in 1..Len(GeomNames) |->
            IF /\ GeomNames[geom_id] # None
               /\ GeomGroup[geom_id] = 1
               /\ GeomNames[geom_id][1] \in transparent_geom_names
            THEN [@[geom_id] EXCEPT ![4] = 0]
            ELSE @[geom_id]]]

\* MujocoEnv._get_observations(): the cube position if it is observed, and the camera
\* image, of which the alpha of each geom is kept
get_observations(env) ==
    [cube_pos |-> IF \E i \in 1..Len(env.observables) : env.observables[i] = "cube_pos"
                  THEN Some(cube_xpos(env)) ELSE None,
     image |-> geom_alphas(env)]

\* MujocoEnv.__init__: first model load, simulation, internal reset, observables
super_init(env, id, ux, uy, angle, d, sx, sy, quat) ==
    _setup_observables(
        _reset_internal(initialize_sim(_load_model(env, id, ux, uy, angle)),
                        d, sx, sy, quat))

\* MujocoEnv.reset(): a model reload when hard_reset is set and the reset is not
\* deterministic, the internal reset, the observables, all visualizations off, and the
\* observation that is returned
super_reset(env, id, ux, uy, angle, d, sx, sy, quat) ==
    let_in(_reset_internal(
               IF env.hard_reset /\ ~env.deterministic_reset
               THEN initialize_sim(_load_model(env, id, ux, uy, angle))
               ELSE env,
               d, sx, sy, quat),
           LAMBDA e2 :
               let_in(visualize(IF e2.hard_reset THEN _setup_observables(e2) ELSE e2,
                                [grippers |-> FALSE]),
                      LAMBDA e4 : [env |-> log(e4, "reset", "super"),
                                   obs |-> get_observations(e4)]))

\* variant of reset: the robot base is made transparent before the superclass reset
reset_transparent_first(env, id, ux, uy, angle, d, sx, sy, quat) ==
    let_in(_make_robot_base_transparent(log(log(env, "reset", "enter"), "reset", "own")),
           LAMBDA e0 : super_reset(e0, id, ux, uy, angle, d, sx, sy, quat))

\* LiftRand.reset: the superclass reset, then the robot base made transparent; returns
\* the observation of the superclass reset
reset(env, id, ux, uy, angle, d, sx, sy, quat) ==
    let_in(super_reset(log(env, "reset", "enter"), id, ux, uy, angle, d, sx, sy, quat),
           LAMBDA r : [env |-> _make_robot_base_transparent(log(r.env, "reset", "own")),
                       obs |-> r.obs])

(* ---------------- state machine ---------------- *)

\* a sampler a caller may pass in: already used elsewhere, with its own reference position
CallerSampler ==
    [id |-> 0, name |-> "CallerSampler", mujoco_objects |-> <<0>>,
     reference_pos |-> <<0, 0, 800>>, z_offset |-> 10]

NoRet == [op |-> "none", success |-> FALSE, reward |-> 0, obs |-> None, calls |-> << >>]

\* LiftRand.__init__ up to the call of super().__init__
Init ==
    /\ \E scale \in RewardScales, shaping \in BOOLEAN, white \in BOOLEAN,
          hard \in BOOLEAN, pi \in {None, Some(CallerSampler)}, object_obs \in UseObjectObs :
          /\ self = [table_offset |-> <<0, 0, 800>>,
                     reward_scale |-> scale,
                     reward_shaping |-> shaping,
                     placement_initializer |-> pi,
                     use_white_table_texture |-> white,
                     hard_reset |-> hard,
                     deterministic_reset |-> FALSE,
                     cube |-> None,
                     objects |-> << >>,
                     model |-> None,
                     sim |-> [qpos |-> init_qpos, dist |-> 0, grasp |-> FALSE,
                              geom_rgba |-> InitGeomRgba,
                              gripper_site |-> InitGripperSite],
                     n_sample |-> 0,
                     placements |-> << >>,
                     qpos_writes |-> << >>,
                     use_object_obs |-> object_obs,
                     cube_body_id |-> None,
                     observables |-> << >>,
                     calls |-> << >>]
          /\ caller_supplied = (pi # None)
    /\ phase = "new"
    /\ loads = 0
    /\ ret = NoRet

\* super().__init__: the first model load, then the first internal reset
Construct ==
    /\ phase = "new"
    /\ \E t \in TableDraws, angle \in Angles,
          d \in Dists, p \in SampleDraws, quat \in SampleQuats :
          \E e \in {super_init(self, loads + 1, t[1], t[2], angle, d, p[1], p[2], quat)} :
              /\ self' = [e EXCEPT !.calls = << >>]
              /\ ret' = [NoRet EXCEPT !.op = "construct", !.calls = e.calls]
    /\ phase' = "ready"
    /\ loads' = loads + 1
    /\ UNCHANGED caller_supplied

\* a call of reset(); a reload is explored while the bound on loads allows it, and draws
\* the call does not make (no reload, no sampling) are not enumerated
Reset ==
    /\ phase = "ready"
    /\ LET reload == self.hard_reset /\ ~self.deterministic_reset
       IN  /\ reload => loads < MaxLoads
           /\ \E t \in (IF reload THEN TableDraws ELSE {<<0, 0>>}), angle \in Angles,
                 d \in Dists,
                 p \in (IF self.deterministic_reset THEN {<<0, 0>>} ELSE SampleDraws),
                 quat \in SampleQuats :
                 \E r \in {reset(self, loads + 1, t[1], t[2], angle, d, p[1], p[2], quat)} :
                     /\ self' = [r.env EXCEPT !.calls = << >>]
                     /\ ret' = [NoRet EXCEPT !.op = "reset", !.obs = Some(r.obs),
                                             !.calls = r.env.calls]
           /\ loads' = IF reload THEN loads + 1 ELSE loads
    /\ UNCHANGED <<caller_supplied, phase>>

\* one simulation step: the physics moves the cube and the gripper
Step ==
    /\ phase = "ready"
    /\ \E z \in CubeHeights, d \in Dists, g \in BOOLEAN :
          self' = [self EXCEPT !.sim.qpos[3] = z, !.sim.dist = d, !.sim.grasp = g]
    /\ ret' = NoRet
    /\ UNCHANGED <<caller_supplied, phase, loads>>

\* variant of Reward: reward() normalises self.reward_scale in place
Reward_rescales_in_place ==
    /\ phase = "ready"
    /\ ret' = [NoRet EXCEPT !.op = "reward", !.reward = reward(self)]
    /\ self' = [self EXCEPT !.reward_scale =
                    IF @ = None THEN @ ELSE Some((@[1] * 100) \div 225)]
    /\ UNCHANGED <<caller_supplied, phase, loads>>

\* a call of reward()
Reward ==
    /\ phase = "ready"
    /\ ret' = [NoRet EXCEPT !.op = "reward", !.reward = reward(self)]
    /\ UNCHANGED <<self, caller_supplied, phase, loads>>

\* a call of _check_success()
CheckSuccess ==
    /\ phase = "ready"
    /\ ret' = [NoRet EXCEPT !.op = "check_success", !.success = _check_success(self)]
    /\ UNCHANGED <<self, caller_supplied, phase, loads>>

\* a call of visualize(vis_settings)
Visualize ==
    /\ phase = "ready"
    /\ \E g \in BOOLEAN :
          \E e \in {visualize(self, [grippers |-> g])} :
              /\ self' = [e EXCEPT !.calls = << >>]
              /\ ret' = [NoRet EXCEPT !.op = "visualize", !.calls = e.calls]
    /\ UNCHANGED <<caller_supplied, phase, loads>>

\* the host sets deterministic_reset around a reset from a fixed XML state
SetDeterministicReset ==
    /\ phase = "ready"
    /\ self' = [self EXCEPT !.deterministic_reset = ~@]
    /\ ret' = NoRet
    /\ UNCHANGED <<caller_supplied, phase, loads>>

Next ==
    \/ Construct
    \/ Reset
    \/ Step
    \/ Reward
    \/ CheckSuccess
    \/ Visualize
    \/ SetDeterministicReset

Spec == Init /\ [][Next]_vars

TypeOK ==
    /\ phase \in {"new", "ready"}
    /\ loads \in 0..MaxLoads
    /\ phase = "ready" => self.model # None /\ self.placement_initializer # None

(* ---------------- properties ---------------- *)

\* C1: _check_success returns True exactly when the cube's z is strictly greater than the
\* arena's table height plus 0.04: at table_z + 0.04 (0.84 over a 0.8 table) or below the
\* result is False, above it the result is True.
C1_SuccessIffStrictlyAbove ==
    (phase = "ready" /\ ret.op = "check_success") =>
        LET cube_height == self.sim.qpos[3]
            table_height == Arena(self).table_offset[3]
        IN  /\ cube_height <= table_height + 40 => ret.success = FALSE
            /\ cube_height > table_height + 40 => ret.success = TRUE
            /\ (cube_height = 840 /\ table_height = 800) => ret.success = FALSE
            /\ \A th \in {0, 800, 1000} : \A k \in -2..2 :
                   check_success_at(th + 40 + k, th) = (k > 0)

C1_Witness ==
    /\ phase = "ready" /\ ret.op = "check_success"
    /\ self.sim.qpos[3] = 840 /\ Arena(self).table_offset[3] = 800
    /\ ret.success = FALSE

\* C2: with reward_shaping disabled and reward_scale s not None, reward() returns exactly s
\* when the cube is lifted and exactly 0 when it is not, whatever the gripper distance and
\* the grasp status; with s = 1.0 the values are 1.0 and 0.0.
C2_SparseRewardIsScaleOrZero ==
    (phase = "ready" /\ ret.op = "reward"
        /\ ~self.reward_shaping /\ self.reward_scale # None) =>
        LET lifted == self.sim.qpos[3] > Arena(self).table_offset[3] + 40
            s == self.reward_scale[1]
        IN  /\ ret.reward = (IF lifted THEN 225 * s ELSE 0)
            /\ s = 100 => ret.reward = (IF lifted THEN 22500 ELSE 0)

C2_Witness ==
    /\ phase = "ready" /\ ret.op = "reward"
    /\ ~self.reward_shaping /\ self.reward_scale = Some(100)
    /\ self.sim.qpos[3] = 841 /\ self.sim.grasp /\ self.sim.dist = 0
    /\ ret.reward = 22500

\* C3: when reward_scale is not None, the reward returned by reward() never exceeds
\* reward_scale, for both reward_shaping settings.
C3_RewardNeverExceedsScale ==
    (phase = "ready" /\ ret.op = "reward" /\ self.reward_scale # None) =>
        ret.reward <= 225 * self.reward_scale[1]

C5_DefaultSamplerRefIsCurrentOffset ==
    (phase = "ready" /\ ~caller_supplied) =>
        Sampler(self).reference_pos = Arena(self).table_offset

\* C6: after any sequence of model loads the arena's table offset has z exactly 0.8 and
\* x, y within [-0.5, 0.5] of the base offset (0, 0, 0.8), and self.table_offset is still
\* the base offset: random shifts do not accumulate.
C6_OffsetWithinRangeOfBase ==
    phase = "ready" =>
        LET off == Arena(self).table_offset
        IN  /\ off[3] = 800
            /\ off[1] >= -500 /\ off[1] <= 500
            /\ off[2] >= -500 /\ off[2] <= 500
            /\ self.table_offset = <<0, 0, 800>>

C6_Witness ==
    /\ phase = "ready" /\ loads = MaxLoads
    /\ Arena(self).table_offset = <<-500, 500, 800>>

\* C7: a placement initializer that exists at model load (the caller's, or the default one
\* kept from an earlier load) is reset, then given the objects, and never replaced: after
\* every load it holds exactly the cube created in that load.
C7_SamplerHoldsExactlyCurrentCube ==
    phase = "ready" =>
        /\ self.placement_initializer # None
        /\ Sampler(self).mujoco_objects = <<self.cube[1]>>
        /\ self.cube[1] = loads
        /\ Sampler(self).id = (IF caller_supplied THEN 0 ELSE 1)

C7_Witness ==
    /\ phase = "ready" /\ loads >= 2 /\ caller_supplied
    /\ Sampler(self).mujoco_objects = <<loads>>
    /\ Sampler(self).name = "CallerSampler"

\* C8: in _reset_internal, when deterministic_reset is false the initializer is sampled
\* exactly once and each object's joint pose is overwritten by exactly one write of the
\* sampled position concatenated with the sampled quaternion; when it is true the
\* initializer is not sampled and the joint pose is the one the superclass reset set.
C8_OneSampleOneWritePerObject ==
    (phase = "ready" /\ ret.op \in {"construct", "reset"}) =>
        IF ~self.deterministic_reset
        THEN /\ self.n_sample = 1
             /\ Len(self.placements) = Len(self.objects)
             /\ self.qpos_writes =
                    [i \in 1..Len(self.placements) |->
                        [obj |-> self.placements[i].obj,
                         value |-> self.placements[i].pos \o self.placements[i].quat]]
             /\ Len(self.qpos_writes) = 1
             /\ self.qpos_writes[1].obj = self.cube[1]
             /\ self.sim.qpos = self.qpos_writes[1].value
             /\ Len(self.sim.qpos) = 7
        ELSE /\ self.n_sample = 0
             /\ self.qpos_writes = << >>
             /\ self.sim.qpos = init_qpos

C8_Witness ==
    /\ phase = "ready" /\ ret.op = "reset" /\ ~self.deterministic_reset
    /\ self.n_sample = 1 /\ Len(self.qpos_writes) = 1
    /\ self.sim.qpos # init_qpos

\* C9: after _customize_table_material the table-top visual's material is white_table_mat
\* when use_white_table_texture is true and cereal_table_mat when it is false; in white
\* mode no cereal texture or material is among the arena assets, in cereal mode no white
\* material is.
C9_TableMaterialMatchesFlag ==
    phase = "ready" =>
        LET arena == Arena(self)
            assets == {arena.asset[i] : i \in 1..Len(arena.asset)}
        IN  IF self.use_white_table_texture
            THEN /\ arena.table_visual_material = "white_table_mat"
                 /\ "white_table_mat" \in assets
                 /\ "cereal_table_mat" \notin assets
                 /\ "tex-cereal-table" \notin assets
            ELSE /\ arena.table_visual_material = "cereal_table_mat"
                 /\ "cereal_table_mat" \in assets
                 /\ "tex-cereal-table" \in assets
                 /\ "white_table_mat" \notin assets

C9_Witness ==
    /\ phase = "ready" /\ self.use_white_table_texture
    /\ Arena(self).table_visual_material = "white_table_mat"
    /\ loads >= 2

\* C10: the table height _check_success and reward() compare against is the value stored
\* in the arena at model load: a step, a reward evaluation, a success check or a reset
\* without reload leaves the arena's table offset as it was, and a success check answers
\* against that stored value.
C10_TableHeightFixedBetweenLoads ==
    [][(phase = "ready" /\ loads' = loads) =>
          /\ Arena(self').table_offset = Arena(self).table_offset
          /\ ret'.op = "check_success" =>
                ret'.success = (self'.sim.qpos[3] > Arena(self).table_offset[3] + 40)
          /\ ret'.op = "reward" =>
                (ret'.reward >= 225 * (IF self.reward_scale = None
                                       THEN 225 ELSE self.reward_scale[1]))
                    = (self'.sim.qpos[3] > Arena(self).table_offset[3] + 40)
      ]_vars

C10_Witness ==
    /\ phase = "ready" /\ ret.op = "reset" /\ loads = 1
    /\ ~self.hard_reset
    /\ Arena(self).table_offset # self.table_offset

\* the hooks LiftRand overrides
Hooks ==
    {"_load_model", "_reset_internal", "_setup_references", "_setup_observables",
     "reset", "visualize"}

\* in a record of calls, every call of hook h ran the superclass implementation between
\* entering and its own extension steps
SuperFirst(calls, h) ==
    LET t == SelectSeq(calls, LAMBDA e : e[1] = h)
    IN  \A i \in 1..Len(t) :
            /\ t[i][2] = "enter" => (i < Len(t) /\ t[i + 1][2] = "super")
            /\ t[i][2] = "super" => (i > 1 /\ t[i - 1][2] = "enter")
            /\ t[i][2] = "own" => (i > 1 /\ t[i - 1][2] = "super")

\* C11: each overridden hook (_load_model, _reset_internal, _setup_references,
\* _setup_observables, reset, visualize) runs the superclass implementation before any of
\* its own steps; reset() makes the robot base transparent only after the superclass reset
\* has completed and returns the observation the superclass reset produced.
C11_SuperclassFirst ==
    [][(ret'.op \in {"construct", "reset", "visualize"}) =>
          /\ \A h \in Hooks : SuperFirst(ret'.calls, h)
          /\ ret'.op = "reset" =>
                LET n == Len(ret'.calls)
                    reload == self.hard_reset /\ ~self.deterministic_reset
                IN  /\ ret'.calls[n] = <<"reset", "own">>
                    /\ ret'.calls[n - 1] = <<"reset", "super">>
                    /\ self'.sim.geom_rgba[1][4] = 0
                    /\ ret'.obs # None
                    /\ ret'.obs[1].cube_pos =
                           (IF self.use_object_obs
                            THEN Some(SubSeq(self'.sim.qpos, 1, 3)) ELSE None)
                    /\ ret'.obs[1].image =
                           (IF reload
                            THEN [i \in 1..Len(InitGeomRgba) |-> InitGeomRgba[i][4]]
                            ELSE [i \in 1..Len(InitGeomRgba) |-> self.sim.geom_rgba[i][4]])
      ]_vars

C11_Witness ==
    /\ phase = "ready" /\ ret.op = "reset"
    /\ \A h \in Hooks : \E i \in 1..Len(ret.calls) : ret.calls[i] = <<h, "own">>
    /\ ret.obs[1].image[1] = 10
    /\ self.sim.geom_rgba[1][4] = 0

\* C12: reward() and _check_success() are read-only and history-free: a call leaves the
\* simulation state, the configuration flags, the table offset and the placement
\* initializer unchanged, the value returned is a function of the state at the call, and
\* a repeated call returns the same value.
C12_QueriesReadOnly ==
    [][(phase = "ready" /\ ret'.op \in {"reward", "check_success"}) =>
          LET lifted == self.sim.qpos[3] > Arena(self).table_offset[3] + 40
              total == (IF lifted THEN 225 ELSE 0)
                       + (IF self.reward_shaping
                          THEN reaching_reward(self.sim.dist)
                               + (IF self.sim.grasp THEN 25 ELSE 0)
                          ELSE 0)
          IN  /\ self' = self
              /\ caller_supplied' = caller_supplied /\ loads' = loads
              /\ ret'.op = "check_success" => ret'.success = lifted
              /\ ret'.op = "reward" =>
                    ret'.reward = (IF self.reward_scale = None THEN 225 * total
                                   ELSE total * self.reward_scale[1])
              /\ ret.op = ret'.op => ret' = ret
      ]_vars

C12_Witness ==
    /\ phase = "ready" /\ ret.op = "reward" /\ ret.reward = 0
    /\ self.sim.qpos[3] = 840 /\ ~self.reward_shaping
    /\ loads >= 2

\* the geom names the robot base and first link are known by
C13_Names ==
    {"fixed_mount0_torso_vis", "fixed_mount0_pedestal_vis",
     "robot0_g0_vis", "robot0_g1_vis", "robot0_g2_vis", "robot0_g3_vis",
     "robot0_g4_vis", "robot0_g5_vis", "robot0_g6_vis", "robot0_g7_vis",
     "robot0_g8_vis", "robot0_g9_vis", "robot0_g10_vis", "robot0_g11_vis"}

\* C13: after every reset() each geom of visual group 1 named fixed_mount0_torso_vis,
\* fixed_mount0_pedestal_vis or robot0_g0_vis .. robot0_g11_vis has alpha 0; the alpha of
\* every other geom and the RGB channels of all geoms are as the superclass reset left
\* them.
C13_OnlyBaseGeomsTransparent ==
    [][(phase = "ready" /\ ret'.op = "reset") =>
          LET reload == self.hard_reset /\ ~self.deterministic_reset
              pre == IF reload THEN InitGeomRgba ELSE self.sim.geom_rgba
              post == self'.sim.geom_rgba
          IN  /\ Len(post) = Len(GeomNames)
              /\ \A i \in 1..Len(GeomNames) :
                    LET target == /\ GeomGroup[i] = 1
                                  /\ \E n \in C13_Names : GeomNames[i] = Some(n)
                    IN  /\ target => post[i][4] = 0
                        /\ ~target => post[i][4] = pre[i][4]
                        /\ \A c \in 1..3 : post[i][c] = pre[i][c]
      ]_vars

C13_Witness ==
    /\ phase = "ready" /\ ret.op = "reset"
    /\ self.sim.geom_rgba[1] = <<5, 5, 5, 0>>
    /\ self.sim.geom_rgba[4] = <<10, 10, 10, 0>>
    /\ self.sim.geom_rgba[2] = <<2, 2, 2, 10>>
    /\ self.sim.geom_rgba[5] = <<10, 10, 10, 10>>
    /\ self.sim.geom_rgba[6] = <<3, 3, 3, 10>>

====
